---- MODULE Spec2Model ----
(***************************************************************************)
(* Options page of CookieContentSettings (src/src/options.ts): the rule    *)
(* set kept in chrome.storage.sync ("canonical store"), its in-memory      *)
(* mirror currentSettings, and the live rules of                           *)
(* chrome.contentSettings.cookies ("rule engine"), driven by the page's    *)
(* four UI handlers, the initial fetch and the storage.onChanged listener. *)
(*                                                                         *)
(* Every chrome.* call is asynchronous: it is issued (state "sent"), the   *)
(* browser performs it or fails it (state "replied"), and later the        *)
(* completion callback runs in the page together with the microtasks it    *)
(* unblocks (the .finally status update and the code after the await).     *)
(***************************************************************************)
EXTENDS Integers, Sequences, FiniteSets, TLC

\* ---------------------------------------------------------------- bounds
MaxOps == 2          \* UI operations that can be in progress at once
MaxPending == 1      \* undelivered change events when another device writes

\* ------------------------------------------------------------ data model
\* JS undefined, for the optional secondaryPattern (an absent property and
\* a property holding undefined are not distinguished).
Undefined == "<undefined>"

\* Values submitted with the add form:
\* <<primary input, secondary input, setting>>.
FormInputs ==
    { <<"https://a.com", "", "block">>,
      <<"https://a.com/", "", "allow">>,
      <<"https://b.org/*", "", "allow">>,
      <<"https://a.com", "https://c.net", "block">> }

Char(s, i) == SubSeq(s, i, i)

\* pattern.match(/^(.+\/\/[^/]+)(\/)?$/) ? match[1] + "/*" : pattern
autoCompletePath(pattern) ==
    LET n == Len(pattern)
        patternWithoutTrailingSlash ==
            IF n > 0 /\ Char(pattern, n) = "/"
            THEN SubSeq(pattern, 1, n - 1) ELSE pattern
        m == Len(patternWithoutTrailingSlash)
        match == \E i \in 2..(m - 2) :
                    /\ Char(patternWithoutTrailingSlash, i) = "/"
                    /\ Char(patternWithoutTrailingSlash, i + 1) = "/"
                    /\ \A j \in (i + 2)..m :
                          Char(patternWithoutTrailingSlash, j) # "/"
    IN IF match THEN patternWithoutTrailingSlash \o "/*" ELSE pattern

\* `${entry.primaryPattern};${entry.secondaryPattern}`
keyForEntry(entry) ==
    entry.primaryPattern \o ";" \o
    (IF entry.secondaryPattern = Undefined THEN "undefined"
     ELSE entry.secondaryPattern)

Entry(p, s, v) == [primaryPattern |-> p, secondaryPattern |-> s, setting |-> v]

NoEntry == Entry("", Undefined, "")

\* The entry the submit handler builds from the form fields.
FormEntry(primaryInput, secondaryInput, setting) ==
    Entry(autoCompletePath(primaryInput),
          IF secondaryInput # "" THEN autoCompletePath(secondaryInput)
          ELSE Undefined,
          setting)

\* CookieSettings = Record<string, CookieSettingsEntry>
EmptySettings == [k \in {} |-> NoEntry]

Values(cookieSettings) == {cookieSettings[k] : k \in DOMAIN cookieSettings}

\* { [key]: entry, ...cookieSettings }: an entry already stored wins.
WithEntryOldWins(cookieSettings, key, entry) ==
    [k \in DOMAIN cookieSettings \cup {key} |->
        IF k \in DOMAIN cookieSettings THEN cookieSettings[k] ELSE entry]

\* { ...cookieSettings, [key]: entry }
WithEntry(cookieSettings, key, entry) ==
    [k \in DOMAIN cookieSettings \cup {key} |->
        IF k = key THEN entry ELSE cookieSettings[k]]

\* remainingEntries = cookieSettings: the removed entry is not left out.
WithoutKeyKeepsAll(cookieSettings, key) == cookieSettings

\* const { [key]: removedEntry, ...remainingEntries } = cookieSettings
WithoutKey(cookieSettings, key) ==
    [k \in DOMAIN cookieSettings \ {key} |-> cookieSettings[k]]

\* A rule set written by this page: every entry sits under its own key.
SettingsOf(entries) ==
    [k \in {keyForEntry(e) : e \in entries} |->
        CHOOSE e \in entries : keyForEntry(e) = k]

\* An optional CookieSettings value (storage value, get result, newValue).
Absent == [has |-> FALSE, val |-> EmptySettings]
Some(cookieSettings) == [has |-> TRUE, val |-> cookieSettings]

\* Rule sets left in the store / engine by earlier sessions.
RuleA == FormEntry("https://a.com", "", "block")
RuleB == FormEntry("https://b.org/*", "", "allow")
RuleC == FormEntry("https://a.com", "https://c.net", "block")
StaleRuleA == FormEntry("https://a.com/", "", "allow")

InitStores ==
    {Absent} \cup {Some(SettingsOf(es)) : es \in SUBSET {RuleA, RuleB, RuleC}}

InitEngines(st) == { {}, Values(st.val), {StaleRuleA, RuleC} }

\* Values another device may write to the store.
ExternalValues == {Some(SettingsOf({RuleB}))}

\* chrome.runtime.lastError.message of a failed call.
ErrorMessage(fn) ==
    IF fn \in {"cookies.clear", "cookies.set"} THEN "Content settings error"
    ELSE "Storage error"


\* --------------------------------------------------------------- state
VARIABLES
    engine,           \* live rules of chrome.contentSettings.cookies
    store,            \* value of "cookieSettings" in chrome.storage.sync
    currentSettings,  \* the in-memory mirror
    statusText,       \* ui.statusText.textContent
    calls,            \* chrome.* calls whose callback has not run yet
    notifs,           \* storage.onChanged events not yet delivered
    ops               \* per slot, the UI operation last started in it

vars == <<engine, store, currentSettings, statusText, calls, notifs, ops>>

Slots == 1..MaxOps
LoadOp == 0

Call(i, fn, key, entry, data) ==
    [op |-> i, fn |-> fn, key |-> key, entry |-> entry, data |-> data,
     state |-> "sent", ok |-> FALSE, result |-> Absent]

ClearCall(i) == Call(i, "cookies.clear", "", NoEntry, EmptySettings)
SetCall(i, key, entry) == Call(i, "cookies.set", key, entry, EmptySettings)
StoreSetCall(i, data) == Call(i, "sync.set", "", NoEntry, data)
StoreClearCall(i) == Call(i, "sync.clear", "", NoEntry, EmptySettings)
StoreGetCall(i) == Call(i, "sync.get", "", NoEntry, EmptySettings)

\* Only the first value of the record is replayed.
SetCallsFirstOnly(i, cookieSettings, keys) ==
    IF keys = {} THEN <<>>
    ELSE LET k == CHOOSE x \in keys : TRUE
         IN <<SetCall(i, k, cookieSettings[k])>>

\* Object.values(cookieSettings).map((entry) => api(cookies, "set", entry))
RECURSIVE SetCalls(_, _, _)
SetCalls(i, cookieSettings, keys) ==
    IF keys = {} THEN <<>>
    ELSE LET k == CHOOSE x \in keys : TRUE
         IN <<SetCall(i, k, cookieSettings[k])>>
            \o SetCalls(i, cookieSettings, keys \ {k})

Range(seq) == {seq[n] : n \in DOMAIN seq}

Active(op) == op.pc \notin {"done", "failed"}

NoneActive == \A j \in Slots : ~Active(ops[j])

Quiescent == calls = {} /\ notifs = <<>> /\ NoneActive

\* Engine, store and mirror hold the same rule set.
InSync == store = Some(currentSettings) /\ engine = Values(currentSettings)

\* What an operation record keeps of the run that preceded it.
Summary(op) ==
    [kind |-> op.kind, pc |-> op.pc, entry |-> op.entry,
     synced |-> op.synced,
     nonEmpty |-> op.before # EmptySettings,
     failed |-> {t[2] : t \in {u \in op.settled :
                                  u[1] = "cookies.set" /\ ~u[3]}}]

NoSummary ==
    [kind |-> "None", pc |-> "done", entry |-> NoEntry, synced |-> FALSE,
     nonEmpty |-> FALSE, failed |-> {}]

\* Nothing has been started yet / one operation has been run and is over.
FirstOp == \A j \in Slots : ops[j].kind = "None"

SecondOp ==
    /\ NoneActive
    /\ \E j \in Slots : ops[j].kind # "None"
    /\ \A j \in Slots : ops[j].prev.kind = "None"

\* An operation record.  kind, pc, entry and remainingEntries are the
\* handler's position and locals; the other fields record the run for the
\* properties below and are never read by the handlers:
\*   returned  the handler's code has run to its end
\*   before    currentSettings when the operation started
\*   synced    InSync held when the operation started
\*   alone     the operation started in a quiescent state and since then
\*             no other operation started and no other device wrote
\*   follows   the operation started in a quiescent state right after
\*             the preceding one, which was alone
\*   prev      summary of the preceding run (its kind only, unless follows)
\*   stored    the value of the store when the operation started
\*   reloaded  the page has been closed and opened again since
\*   issued    the calls issued so far, in order
\*   settled   <<fn, key, ok>> of the calls whose callback has run
NewOp(slot, kind, pc, entry, issued) ==
    [kind |-> kind, pc |-> pc, entry |-> entry,
     remainingEntries |-> EmptySettings,
     returned |-> ~(pc \notin {"done", "failed"}),
     before |-> currentSettings,
     synced |-> InSync,
     stored |-> store,
     reloaded |-> FALSE,
     alone |-> Quiescent,
     follows |-> Quiescent /\ ops[slot].alone,
     prev |-> IF Quiescent /\ ops[slot].alone THEN Summary(ops[slot])
              ELSE [NoSummary EXCEPT !.kind = ops[slot].kind],
     issued |-> issued,
     settled |-> {}]

IdleOp ==
    [kind |-> "None", pc |-> "done", entry |-> NoEntry,
     remainingEntries |-> EmptySettings, returned |-> TRUE,
     before |-> EmptySettings, synced |-> FALSE, stored |-> Absent,
     reloaded |-> FALSE, alone |-> FALSE,
     follows |-> FALSE, prev |-> NoSummary, issued |-> <<>>, settled |-> {}]

Disturbed(os) == [j \in Slots |-> [os[j] EXCEPT !.alone = FALSE]]

\* The lowest slot whose operation is over takes the new operation.
Free(slot) ==
    /\ ~Active(ops[slot])
    /\ \A j \in Slots : j < slot => Active(ops[j])

Start(slot, op) ==
    /\ Free(slot)
    /\ ops' = [Disturbed(ops) EXCEPT ![slot] = op]
    /\ calls' = calls \cup Range(op.issued)

\* api(): call c of operation i has settled; the operation moves to pc
\* and issues the given calls.
Settle(os, i, c, pc, issued) ==
    [os EXCEPT ![i].pc = pc,
               ![i].returned = ~(pc \notin {"done", "failed"}) \/ @,
               ![i].issued = @ \o issued,
               ![i].settled = @ \cup {<<c.fn, c.key, c.ok>>}]

\* updateStatus(), run by the .finally of the wrapper after call c settled.
\* lastErrorLive: chrome.runtime.lastError is still set when that microtask
\* runs (the browser clears it once the callback has returned).
updateStatus(c, lastErrorLive) ==
    IF ~c.ok /\ lastErrorLive
    THEN (IF ErrorMessage(c.fn) # "" THEN ErrorMessage(c.fn)
          ELSE "Unknown error")
    ELSE ""

\* currentSettings = { ...currentSettings, ...cookieSettings }: the new
\* value is merged into the mirror.
onSyncedSettingsMerges(cookieSettings) ==
    [k \in DOMAIN currentSettings \cup DOMAIN cookieSettings.val |->
        IF k \in DOMAIN cookieSettings.val THEN cookieSettings.val[k]
        ELSE currentSettings[k]]

\* onSyncedSettings(cookieSettings): currentSettings = cookieSettings || {}
onSyncedSettings(cookieSettings) ==
    IF cookieSettings.has THEN cookieSettings.val ELSE EmptySettings

\* ------------------------------------------------------------ browser
\* chrome.contentSettings.cookies.set: a rule with the same pattern pair
\* is replaced.
EngineSet(rules, entry) ==
    {r \in rules : ~(/\ r.primaryPattern = entry.primaryPattern
                     /\ r.secondaryPattern = entry.secondaryPattern)}
    \cup {entry}

Reply(c, ok, result) ==
    (calls \ {c}) \cup {[c EXCEPT !.state = "replied", !.ok = ok,
                                  !.result = result]}

Notification(hasKey, newValue) == [hasKey |-> hasKey, newValue |-> newValue]

\* The browser performs (ok) or fails (~ok) a rule-engine call.
EnginePerform(c, ok) ==
    /\ c \in calls /\ c.state = "sent"
    /\ c.fn \in {"cookies.clear", "cookies.set"}
    /\ engine' = IF ~ok THEN engine
                 ELSE IF c.fn = "cookies.clear" THEN {}
                 ELSE EngineSet(engine, c.entry)
    /\ calls' = Reply(c, ok, Absent)
    /\ UNCHANGED <<store, currentSettings, statusText, notifs, ops>>

\* The browser performs or fails a storage call; a change of the stored
\* value queues an onChanged event.
StorePerform(c, ok) ==
    /\ c \in calls /\ c.state = "sent"
    /\ c.fn \in {"sync.get", "sync.set", "sync.clear"}
    /\ LET newStore == IF ~ok \/ c.fn = "sync.get" THEN store
                       ELSE IF c.fn = "sync.set" THEN Some(c.data)
                       ELSE Absent
       IN /\ store' = newStore
          /\ notifs' = IF newStore # store
                       THEN Append(notifs, Notification(TRUE, newStore))
                       ELSE notifs
    /\ calls' = Reply(c, ok, IF ok /\ c.fn = "sync.get" THEN store ELSE Absent)
    /\ UNCHANGED <<engine, currentSettings, statusText, ops>>

\* Another device changes the synchronized rule set (hasKey), or a change
\* of some other storage key is reported.
ExternalChange(newValue, hasKey) ==
    /\ Len(notifs) < MaxPending
    /\ hasKey => newValue # store
    /\ store' = IF hasKey THEN newValue ELSE store
    /\ notifs' = Append(notifs, Notification(hasKey,
                                   IF hasKey THEN newValue ELSE Absent))
    /\ ops' = Disturbed(ops)
    /\ UNCHANGED <<engine, currentSettings, statusText, calls>>

\* chrome.storage.onChanged listener
OnChanged ==
    /\ notifs # <<>>
    /\ notifs' = Tail(notifs)
    /\ currentSettings' = IF Head(notifs).hasKey
                          THEN onSyncedSettings(Head(notifs).newValue)
                          ELSE currentSettings
    /\ UNCHANGED <<engine, store, statusText, calls, ops>>

\* --------------------------------------------------------- initial fetch
\* cookieSettings is not what the destructuring finds in the result (a
\* wrong property name): onSyncedSettings(undefined).
LoadCallbackDropsValue(c, lastErrorLive) ==
    /\ c \in calls /\ c.state = "replied" /\ c.op = LoadOp
    /\ calls' = calls \ {c}
    /\ statusText' = updateStatus(c, lastErrorLive)
    /\ currentSettings' = IF c.ok THEN onSyncedSettings(Absent)
                          ELSE currentSettings
    /\ UNCHANGED <<engine, store, notifs, ops>>

\* api(chrome.storage.sync, "get", "cookieSettings").then(onSyncedSettings)
LoadCallback(c, lastErrorLive) ==
    /\ c \in calls /\ c.state = "replied" /\ c.op = LoadOp
    /\ calls' = calls \ {c}
    /\ statusText' = updateStatus(c, lastErrorLive)
    /\ currentSettings' = IF c.ok THEN onSyncedSettings(c.result)
                          ELSE currentSettings
    /\ UNCHANGED <<engine, store, notifs, ops>>

\* The completion callback of call c of an operation may run now.
Replied(c, kind, pc, fn) ==
    /\ c \in calls /\ c.state = "replied" /\ c.fn = fn
    /\ c.op \in Slots
    /\ ops[c.op].kind = kind /\ ops[c.op].pc = pc

Outstanding(i, c) == {d \in calls \ {c} : d.op = i}

\* Promise.all in place of Promise.allSettled: the first failure resumes
\* the function although other calls are still pending.
allSettledShortCircuits(i, c) == Outstanding(i, c) = {} \/ ~c.ok

\* await Promise.allSettled([...]): call c has just settled and none of the
\* calls of operation i is pending any more.
allSettled(i, c) == Outstanding(i, c) = {}

\* Only the entries whose replay succeeded are written back.
PersistReplayedOnly(remainingEntries, settled) ==
    [k \in {x \in DOMAIN remainingEntries :
               <<"cookies.set", x, FALSE>> \notin settled} |->
        remainingEntries[k]]

\* { cookieSettings: remainingEntries }: what removeEntry writes back,
\* given the outcomes of the replayed calls.
PersistAfterReplay(remainingEntries, settled) == remainingEntries

\* ---------------------------------------------------------- removeEntry
\* removeButton.onclick = () => removeEntry(entry), for a row of the table
RemoveClick(slot, key) ==
    /\ key \in DOMAIN currentSettings
    /\ Start(slot, NewOp(slot, "Remove", "Clearing", currentSettings[key],
                         <<ClearCall(slot)>>))
    /\ UNCHANGED <<engine, store, currentSettings, statusText, notifs>>

\* Step 1 settled; step 2 computes remainingEntries from currentSettings
\* and issues the set calls (and the persist call if there is none).
RemoveClearCallback(c, lastErrorLive) ==
    /\ Replied(c, "Remove", "Clearing", "cookies.clear")
    /\ statusText' = updateStatus(c, lastErrorLive)
    /\ LET i == c.op
           remainingEntries ==
               WithoutKey(currentSettings, keyForEntry(ops[i].entry))
           replay == SetCalls(i, remainingEntries, DOMAIN remainingEntries)
           issued == IF ~c.ok THEN <<>>
                     ELSE IF replay = <<>>
                     THEN <<StoreSetCall(i, PersistAfterReplay(
                                                remainingEntries, {}))>>
                     ELSE replay
           pc == IF ~c.ok THEN "failed"
                 ELSE IF replay = <<>> THEN "Persisting" ELSE "Replaying"
       IN /\ ops' = [Settle(ops, i, c, pc, issued)
                        EXCEPT ![i].remainingEntries =
                            IF c.ok THEN remainingEntries ELSE @]
          /\ calls' = (calls \ {c}) \cup Range(issued)
    /\ UNCHANGED <<engine, store, currentSettings, notifs>>

\* One replayed set call settled; Promise.allSettled resumes the function
\* once none is left, whatever their outcomes.
RemoveReplayCallback(c, lastErrorLive) ==
    /\ Replied(c, "Remove", "Replaying", "cookies.set")
    /\ statusText' = updateStatus(c, lastErrorLive)
    /\ LET i == c.op
           settled == ops[i].settled \cup {<<c.fn, c.key, c.ok>>}
           issued == IF allSettled(i, c)
                     THEN <<StoreSetCall(i, PersistAfterReplay(
                                                ops[i].remainingEntries,
                                                settled))>>
                     ELSE <<>>
           pc == IF allSettled(i, c) THEN "Persisting" ELSE "Replaying"
       IN /\ ops' = Settle(ops, i, c, pc, issued)
          /\ calls' = (calls \ {c}) \cup Range(issued)
    /\ UNCHANGED <<engine, store, currentSettings, notifs>>

RemovePersistCallback(c, lastErrorLive) ==
    /\ Replied(c, "Remove", "Persisting", "sync.set")
    /\ statusText' = updateStatus(c, lastErrorLive)
    /\ ops' = Settle(ops, c.op, c, IF c.ok THEN "done" ELSE "failed", <<>>)
    /\ calls' = calls \ {c}
    /\ UNCHANGED <<engine, store, currentSettings, notifs>>

\* ------------------------------------------------- addForm submit handler
AddSubmit(slot, primaryInput, secondaryInput, setting) ==
    /\ LET entry == FormEntry(primaryInput, secondaryInput, setting)
       IN Start(slot, NewOp(slot, "Add", "Setting", entry,
                            <<SetCall(slot, keyForEntry(entry), entry)>>))
    /\ UNCHANGED <<engine, store, currentSettings, statusText, notifs>>

\* api() resolves although lastError is set: the handler goes on to the
\* persist call after a failed set call.
AddSetCallbackResolvesAlways(c, lastErrorLive) ==
    /\ Replied(c, "Add", "Setting", "cookies.set")
    /\ statusText' = updateStatus(c, lastErrorLive)
    /\ LET i == c.op
           entry == ops[i].entry
           issued == <<StoreSetCall(i, WithEntry(currentSettings,
                                                 keyForEntry(entry), entry))>>
       IN /\ ops' = Settle(ops, i, c, "Persisting", issued)
          /\ calls' = (calls \ {c}) \cup Range(issued)
    /\ UNCHANGED <<engine, store, currentSettings, notifs>>

AddSetCallback(c, lastErrorLive) ==
    /\ Replied(c, "Add", "Setting", "cookies.set")
    /\ statusText' = updateStatus(c, lastErrorLive)
    /\ LET i == c.op
           entry == ops[i].entry
           issued == IF c.ok
                     THEN <<StoreSetCall(i, WithEntry(currentSettings,
                                                      keyForEntry(entry),
                                                      entry))>>
                     ELSE <<>>
       IN /\ ops' = Settle(ops, i, c,
                           IF c.ok THEN "Persisting" ELSE "failed", issued)
          /\ calls' = (calls \ {c}) \cup Range(issued)
    /\ UNCHANGED <<engine, store, currentSettings, notifs>>

\* The handler updates the mirror itself once the persist call succeeded.
AddPersistCallbackWritesMirror(c, lastErrorLive) ==
    /\ Replied(c, "Add", "Persisting", "sync.set")
    /\ statusText' = updateStatus(c, lastErrorLive)
    /\ ops' = Settle(ops, c.op, c, IF c.ok THEN "done" ELSE "failed", <<>>)
    /\ calls' = calls \ {c}
    /\ currentSettings' = IF c.ok THEN c.data ELSE currentSettings
    /\ UNCHANGED <<engine, store, notifs>>

AddPersistCallback(c, lastErrorLive) ==
    /\ Replied(c, "Add", "Persisting", "sync.set")
    /\ statusText' = updateStatus(c, lastErrorLive)
    /\ ops' = Settle(ops, c.op, c, IF c.ok THEN "done" ELSE "failed", <<>>)
    /\ calls' = calls \ {c}
    /\ UNCHANGED <<engine, store, currentSettings, notifs>>

\* --------------------------------------------- setAllButton click handler
\* await Promise.allSettled(...) in an async handler: it is over only once
\* the calls have settled.
SetAllClickAwaits(slot) ==
    /\ LET issued == SetCalls(slot, currentSettings, DOMAIN currentSettings)
       IN Start(slot, NewOp(slot, "SetAll",
                            IF issued = <<>> THEN "done" ELSE "Setting",
                            NoEntry, issued))
    /\ UNCHANGED <<engine, store, currentSettings, statusText, notifs>>

\* The handler issues the calls and returns; pc "Setting" only records
\* that some of them have not called back yet.
SetAllClick(slot) ==
    /\ LET issued == SetCalls(slot, currentSettings, DOMAIN currentSettings)
       IN Start(slot, [NewOp(slot, "SetAll",
                             IF issued = <<>> THEN "done" ELSE "Setting",
                             NoEntry, issued)
                          EXCEPT !.returned = TRUE])
    /\ UNCHANGED <<engine, store, currentSettings, statusText, notifs>>

SetAllCallback(c, lastErrorLive) ==
    /\ Replied(c, "SetAll", "Setting", "cookies.set")
    /\ statusText' = updateStatus(c, lastErrorLive)
    /\ ops' = Settle(ops, c.op, c,
                     IF Outstanding(c.op, c) = {} THEN "done" ELSE "Setting",
                     <<>>)
    /\ calls' = calls \ {c}
    /\ UNCHANGED <<engine, store, currentSettings, notifs>>

\* ------------------------------------------- clearAllButton click handler
ClearAllClick(slot, confirmed) ==
    IF confirmed
    THEN /\ Start(slot, NewOp(slot, "ClearAll", "Clearing", NoEntry,
                              <<ClearCall(slot)>>))
         /\ UNCHANGED <<engine, store, currentSettings, statusText, notifs>>
    ELSE UNCHANGED vars

\* The handler stops after the first call: the store is never cleared.
ClearAllEngineOnly(c, lastErrorLive) ==
    /\ Replied(c, "ClearAll", "Clearing", "cookies.clear")
    /\ statusText' = updateStatus(c, lastErrorLive)
    /\ ops' = Settle(ops, c.op, c, IF c.ok THEN "done" ELSE "failed", <<>>)
    /\ calls' = calls \ {c}
    /\ UNCHANGED <<engine, store, currentSettings, notifs>>

\* The rejection of the first call is swallowed: the store is cleared
\* although the engine was not.
ClearAllEngineCallbackGoesOn(c, lastErrorLive) ==
    /\ Replied(c, "ClearAll", "Clearing", "cookies.clear")
    /\ statusText' = updateStatus(c, lastErrorLive)
    /\ LET issued == <<StoreClearCall(c.op)>>
       IN /\ ops' = Settle(ops, c.op, c, "Persisting", issued)
          /\ calls' = (calls \ {c}) \cup Range(issued)
    /\ UNCHANGED <<engine, store, currentSettings, notifs>>

ClearAllEngineCallback(c, lastErrorLive) ==
    /\ Replied(c, "ClearAll", "Clearing", "cookies.clear")
    /\ statusText' = updateStatus(c, lastErrorLive)
    /\ LET issued == IF c.ok THEN <<StoreClearCall(c.op)>> ELSE <<>>
       IN /\ ops' = Settle(ops, c.op, c,
                           IF c.ok THEN "Persisting" ELSE "failed", issued)
          /\ calls' = (calls \ {c}) \cup Range(issued)
    /\ UNCHANGED <<engine, store, currentSettings, notifs>>

ClearAllStoreCallback(c, lastErrorLive) ==
    /\ Replied(c, "ClearAll", "Persisting", "sync.clear")
    /\ statusText' = updateStatus(c, lastErrorLive)
    /\ ops' = Settle(ops, c.op, c, IF c.ok THEN "done" ELSE "failed", <<>>)
    /\ calls' = calls \ {c}
    /\ UNCHANGED <<engine, store, currentSettings, notifs>>

\* ------------------------------------------------------- specification
Init ==
    /\ store \in InitStores
    /\ engine \in InitEngines(store)
    /\ currentSettings = EmptySettings
    /\ statusText = ""
    /\ calls = {StoreGetCall(LoadOp)}
    /\ notifs = <<>>
    /\ ops = [j \in Slots |-> IdleOp]

\* Sessions of one operation: the page loads and the user starts one
\* operation at any moment, while another device may write at any moment.
Next ==
    \/ \E c \in calls, ok \in BOOLEAN : EnginePerform(c, ok)
    \/ \E c \in calls, ok \in BOOLEAN : StorePerform(c, ok)
    \/ \E v \in ExternalValues, hasKey \in BOOLEAN : ExternalChange(v, hasKey)
    \/ OnChanged
    \/ \E c \in calls, live \in BOOLEAN : LoadCallback(c, live)
    \/ \E s \in Slots, key \in DOMAIN currentSettings :
          FirstOp /\ RemoveClick(s, key)
    \/ \E c \in calls, live \in BOOLEAN : RemoveClearCallback(c, live)
    \/ \E c \in calls, live \in BOOLEAN : RemoveReplayCallback(c, live)
    \/ \E c \in calls, live \in BOOLEAN : RemovePersistCallback(c, live)
    \/ \E s \in Slots, in \in FormInputs :
          FirstOp /\ AddSubmit(s, in[1], in[2], in[3])
    \/ \E c \in calls, live \in BOOLEAN : AddSetCallback(c, live)
    \/ \E c \in calls, live \in BOOLEAN : AddPersistCallback(c, live)
    \/ \E s \in Slots : FirstOp /\ SetAllClick(s)
    \/ \E c \in calls, live \in BOOLEAN : SetAllCallback(c, live)
    \/ \E s \in Slots, confirmed \in BOOLEAN :
          FirstOp /\ ClearAllClick(s, confirmed)
    \/ \E c \in calls, live \in BOOLEAN : ClearAllEngineCallback(c, live)
    \/ \E c \in calls, live \in BOOLEAN : ClearAllStoreCallback(c, live)

Spec == Init /\ [][Next]_vars

\* Sessions of two operations on one device: as above without writes of
\* other devices, and once the first operation is over the user may press
\* "set all" or "clear all".
NextFollowUp ==
    \/ \E c \in calls, ok \in BOOLEAN : EnginePerform(c, ok)
    \/ \E c \in calls, ok \in BOOLEAN : StorePerform(c, ok)
    \/ OnChanged
    \/ \E c \in calls, live \in BOOLEAN : LoadCallback(c, live)
    \/ \E s \in Slots, key \in DOMAIN currentSettings :
          FirstOp /\ RemoveClick(s, key)
    \/ \E c \in calls, live \in BOOLEAN : RemoveClearCallback(c, live)
    \/ \E c \in calls, live \in BOOLEAN : RemoveReplayCallback(c, live)
    \/ \E c \in calls, live \in BOOLEAN : RemovePersistCallback(c, live)
    \/ \E s \in Slots, in \in FormInputs :
          FirstOp /\ AddSubmit(s, in[1], in[2], in[3])
    \/ \E c \in calls, live \in BOOLEAN : AddSetCallback(c, live)
    \/ \E c \in calls, live \in BOOLEAN : AddPersistCallback(c, live)
    \/ \E s \in Slots : SecondOp /\ SetAllClick(s)
    \/ \E c \in calls, live \in BOOLEAN : SetAllCallback(c, live)
    \/ \E s \in Slots, confirmed \in BOOLEAN :
          (FirstOp \/ SecondOp) /\ ClearAllClick(s, confirmed)
    \/ \E c \in calls, live \in BOOLEAN : ClearAllEngineCallback(c, live)
    \/ \E c \in calls, live \in BOOLEAN : ClearAllStoreCallback(c, live)

SpecFollowUp == Init /\ [][NextFollowUp]_vars

\* The options page is closed and opened again once an operation is over
\* and its change events are delivered: the module is evaluated anew
\* (empty mirror, initial fetch issued); engine and store live on.
Reload ==
    /\ ~FirstOp /\ Quiescent
    /\ \A j \in Slots : ~ops[j].reloaded
    /\ currentSettings' = EmptySettings
    /\ statusText' = ""
    /\ calls' = {StoreGetCall(LoadOp)}
    /\ notifs' = <<>>
    /\ ops' = [j \in Slots |-> [ops[j] EXCEPT !.reloaded = TRUE]]
    /\ UNCHANGED <<engine, store>>

\* Sessions of one operation followed by a second opening of the page.
NextReload ==
    \/ \E c \in calls, ok \in BOOLEAN : EnginePerform(c, ok)
    \/ \E c \in calls, ok \in BOOLEAN : StorePerform(c, ok)
    \/ \E v \in ExternalValues, hasKey \in BOOLEAN : ExternalChange(v, hasKey)
    \/ OnChanged
    \/ \E c \in calls, live \in BOOLEAN : LoadCallback(c, live)
    \/ \E s \in Slots, key \in DOMAIN currentSettings :
          FirstOp /\ RemoveClick(s, key)
    \/ \E c \in calls, live \in BOOLEAN : RemoveClearCallback(c, live)
    \/ \E c \in calls, live \in BOOLEAN : RemoveReplayCallback(c, live)
    \/ \E c \in calls, live \in BOOLEAN : RemovePersistCallback(c, live)
    \/ \E s \in Slots, in \in FormInputs :
          FirstOp /\ AddSubmit(s, in[1], in[2], in[3])
    \/ \E c \in calls, live \in BOOLEAN : AddSetCallback(c, live)
    \/ \E c \in calls, live \in BOOLEAN : AddPersistCallback(c, live)
    \/ Reload

SpecReload == Init /\ [][NextReload]_vars

\* Form values of the sessions of concurrent operations: a rule under a
\* key of its own and one under the key of RuleA.
ConcurrentInputs ==
    { <<"https://a.com/", "", "allow">>,
      <<"https://a.com", "https://c.net", "block">> }

\* Slot s has not been used in this session.
Unused(s) == ops[s].kind = "None"

\* Sessions of concurrent operations on one device: the user starts up to
\* MaxOps AddOrReplace and Remove operations at any moments, also while
\* earlier ones are in progress.
NextConcurrent ==
    \/ \E c \in calls, ok \in BOOLEAN : EnginePerform(c, ok)
    \/ \E c \in calls, ok \in BOOLEAN : StorePerform(c, ok)
    \/ OnChanged
    \/ \E c \in calls, live \in BOOLEAN : LoadCallback(c, live)
    \/ \E s \in Slots, key \in DOMAIN currentSettings :
          Unused(s) /\ RemoveClick(s, key)
    \/ \E c \in calls, live \in BOOLEAN : RemoveClearCallback(c, live)
    \/ \E c \in calls, live \in BOOLEAN : RemoveReplayCallback(c, live)
    \/ \E c \in calls, live \in BOOLEAN : RemovePersistCallback(c, live)
    \/ \E s \in Slots, in \in ConcurrentInputs :
          Unused(s) /\ AddSubmit(s, in[1], in[2], in[3])
    \/ \E c \in calls, live \in BOOLEAN : AddSetCallback(c, live)
    \/ \E c \in calls, live \in BOOLEAN : AddPersistCallback(c, live)

SpecConcurrent == Init /\ [][NextConcurrent]_vars

TypeOK ==
    /\ store.has \in BOOLEAN
    /\ \A k \in DOMAIN currentSettings : keyForEntry(currentSettings[k]) = k
    /\ \A k \in DOMAIN store.val : keyForEntry(store.val[k]) = k

\* ===================================================== properties
Remove(i) == ops[i].kind = "Remove"
Add(i) == ops[i].kind = "Add"
SetAll(i) == ops[i].kind = "SetAll"
ClearAll(i) == ops[i].kind = "ClearAll"

Over(i) == ops[i].pc \in {"done", "failed"}

Key(i) == keyForEntry(ops[i].entry)

Succeeded(i, fn) == \E t \in ops[i].settled : t[1] = fn /\ t[3]

AllSucceeded(i) == \A t \in ops[i].settled : t[3]

\* Keys of the set calls of operation i that failed / succeeded.
FailedKeys(i) ==
    {t[2] : t \in {u \in ops[i].settled : u[1] = "cookies.set" /\ ~u[3]}}

ReplayedKeys(i) ==
    {t[2] : t \in {u \in ops[i].settled : u[1] = "cookies.set" /\ u[3]}}

Issued(i, fn) == {n \in DOMAIN ops[i].issued : ops[i].issued[n].fn = fn}

InFlight(i, fn) == {c \in calls : c.op = i /\ c.fn = fn}

\* The canonical set S of the run minus its key k.
Remaining(i) ==
    [x \in DOMAIN ops[i].before \ {Key(i)} |-> ops[i].before[x]]

\* C1: a Remove(k) run on canonical set S that was not interleaved with
\* anything and whose clear and persist calls succeeded leaves exactly
\* S \ {k} in the canonical store, whichever replayed set calls failed:
\* every entry whose replay failed is still stored and k is not.
C1_RemovePersistsRemaining ==
    \A i \in Slots :
        Remove(i) /\ ops[i].alone /\ ops[i].pc = "done" =>
            /\ store = Some(Remaining(i))
            /\ Key(i) \notin DOMAIN store.val
            /\ \A f \in FailedKeys(i) :
                  f \in DOMAIN store.val /\ store.val[f] = ops[i].before[f]

\* S = {A, B, C}: one replay failed, another succeeded, persist succeeded.
C1_Witness ==
    \E i \in Slots :
        /\ Remove(i) /\ ops[i].alone /\ ops[i].pc = "done"
        /\ Cardinality(DOMAIN ops[i].before) = 3
        /\ FailedKeys(i) # {} /\ ReplayedKeys(i) # {}

\* C2: in every Remove run the clear call has settled before a replayed
\* set call is issued and every replayed set call has settled before the
\* persist call is issued; the run issues one clear call only (it never
\* returns to Clearing) and, once its clear call succeeded, it waits for
\* all replays and then issues the persist call whatever their outcomes.
C2_RemoveStepsOrdered ==
    \A i \in Slots :
        Remove(i) =>
            /\ Cardinality(Issued(i, "cookies.clear")) = 1
            /\ Issued(i, "cookies.set") # {} \/ Issued(i, "sync.set") # {}
                  => /\ InFlight(i, "cookies.clear") = {}
                     /\ <<"cookies.clear", "", TRUE>> \in ops[i].settled
            /\ Issued(i, "sync.set") # {}
                  => /\ InFlight(i, "cookies.set") = {}
                     /\ \A n \in Issued(i, "cookies.set") :
                           \E ok \in BOOLEAN :
                              <<"cookies.set", ops[i].issued[n].key, ok>>
                                  \in ops[i].settled
            /\ \A m, n \in DOMAIN ops[i].issued :
                  /\ ops[i].issued[m].fn = "cookies.clear"
                        /\ ops[i].issued[n].fn # "cookies.clear" => m < n
                  /\ ops[i].issued[m].fn = "cookies.set"
                        /\ ops[i].issued[n].fn = "sync.set" => m < n
            /\ ops[i].pc = "Clearing" <=> InFlight(i, "cookies.clear") # {}
            /\ ops[i].pc = "Replaying" <=> InFlight(i, "cookies.set") # {}
            /\ ops[i].pc = "Persisting" <=> InFlight(i, "sync.set") # {}
            /\ Over(i) /\ Succeeded(i, "cookies.clear")
                  => Cardinality(Issued(i, "sync.set")) = 1

\* A run with a failed replay is persisting (or has persisted).
C2_Witness ==
    \E i \in Slots :
        /\ Remove(i) /\ FailedKeys(i) # {}
        /\ Cardinality(Issued(i, "cookies.set")) = 2
        /\ Issued(i, "sync.set") # {}

\* C3: a Remove(k) run on canonical set S, not interleaved with anything,
\* whose clear call succeeded has issued, once it is over: one clear call,
\* then one set call per entry of S \ {k} and none for k, then one persist
\* call writing S \ {k}; if k was the only entry, no set call at all and a
\* persist call writing the empty mapping.
C3_RemoveIssuesExactly ==
    \A i \in Slots :
        Remove(i) /\ ops[i].alone /\ Over(i) /\ Succeeded(i, "cookies.clear")
        => LET rest == DOMAIN ops[i].before \ {Key(i)}
               n == Cardinality(rest)
               issued == ops[i].issued
           IN /\ Len(issued) = n + 2
              /\ issued[1] = ClearCall(i)
              /\ \A x \in rest :
                    Cardinality({m \in 2..(n + 1) :
                        issued[m] = SetCall(i, x, ops[i].before[x])}) = 1
              /\ \A m \in DOMAIN issued :
                    issued[m].fn = "cookies.set"
                       => issued[m].entry # ops[i].entry /\ issued[m].key # Key(i)
              /\ issued[n + 2] =
                    StoreSetCall(i, [x \in rest |-> ops[i].before[x]])
              /\ n = 0 => issued = <<ClearCall(i),
                                     StoreSetCall(i, EmptySettings)>>

C3_Witness ==
    \E i \in Slots :
        /\ Remove(i) /\ ops[i].alone /\ ops[i].pc = "done"
        /\ DOMAIN ops[i].before = {Key(i)}
        /\ store = Some(EmptySettings)

\* The same on a set of three entries.
C3_WitnessThree ==
    \E i \in Slots :
        /\ Remove(i) /\ ops[i].alone /\ Over(i)
        /\ Cardinality(DOMAIN ops[i].before) = 3
        /\ Len(ops[i].issued) = 4

\* C4: after a Remove(k) run on canonical set S in which every call
\* succeeded and that was not interleaved with anything, the live rules of
\* the engine are the stored rule set, and both are S \ {k}, whatever rules
\* the engine held before.
C4_RemoveRebuildsEngine ==
    \A i \in Slots :
        Remove(i) /\ ops[i].alone /\ ops[i].pc = "done" /\ AllSucceeded(i)
        => /\ store = Some(Remaining(i))
           /\ engine = Values(store.val)
           /\ engine = {ops[i].before[x] : x \in DOMAIN ops[i].before \ {Key(i)}}

\* The engine held other rules than the canonical ones before the run.
C4_Witness ==
    \E i \in Slots :
        /\ Remove(i) /\ ops[i].alone /\ ops[i].pc = "done" /\ AllSucceeded(i)
        /\ ~ops[i].synced
        /\ Cardinality(DOMAIN ops[i].before) = 3

\* No two entries of a rule set have the same pattern pair.
UniquePairs(cookieSettings) ==
    \A k1, k2 \in DOMAIN cookieSettings :
        /\ cookieSettings[k1].primaryPattern = cookieSettings[k2].primaryPattern
        /\ cookieSettings[k1].secondaryPattern
              = cookieSettings[k2].secondaryPattern
        => k1 = k2

\* C7: an AddOrReplace(rule) run on canonical set S whose two calls
\* succeeded and that was not interleaved with anything leaves in the store
\* S with rule under its key, every other entry unchanged; the stored set
\* and the mirror never hold two entries with the same pattern pair.
C7_AddOverwrites ==
    /\ UniquePairs(store.val)
    /\ UniquePairs(currentSettings)
    /\ \A i \in Slots :
          Add(i) /\ ops[i].alone /\ ops[i].pc = "done"
          => /\ store.has
             /\ DOMAIN store.val = DOMAIN ops[i].before \cup {Key(i)}
             /\ store.val[Key(i)] = ops[i].entry
             /\ \A x \in DOMAIN ops[i].before \ {Key(i)} :
                   store.val[x] = ops[i].before[x]

\* The key was stored already, with another setting.
C7_Witness ==
    \E i \in Slots :
        /\ Add(i) /\ ops[i].alone /\ ops[i].pc = "done"
        /\ Key(i) \in DOMAIN ops[i].before
        /\ ops[i].before[Key(i)] # ops[i].entry
        /\ Cardinality(DOMAIN ops[i].before) > 1

\* C8: SetAll on a canonical set of N entries issues exactly N set calls,
\* one per entry, all of them when the button is pressed and whichever of
\* them fail; it never ends in failure and issues no storage call, so the
\* mirror and the store are as they were (for a run not interleaved with
\* anything).
C8_SetAllIssuesOnePerEntry ==
    \A i \in Slots :
        SetAll(i) =>
            /\ Len(ops[i].issued) = Cardinality(DOMAIN ops[i].before)
            /\ \A x \in DOMAIN ops[i].before :
                  Cardinality({n \in DOMAIN ops[i].issued :
                      ops[i].issued[n] = SetCall(i, x, ops[i].before[x])}) = 1
            /\ \A n \in DOMAIN ops[i].issued :
                  \/ \E c \in calls : c.op = i /\ c.key = ops[i].issued[n].key
                  \/ \E ok \in BOOLEAN :
                        <<"cookies.set", ops[i].issued[n].key, ok>>
                            \in ops[i].settled
            /\ ops[i].pc # "failed"
            /\ \A c \in calls : c.op = i => c.fn = "cookies.set"
            /\ ops[i].alone =>
                  /\ currentSettings = ops[i].before
                  /\ ops[i].synced => store = Some(ops[i].before)

\* Three entries; one call failed, another succeeded, all have settled.
C8_Witness ==
    \E i \in Slots :
        /\ SetAll(i) /\ ops[i].alone /\ ops[i].synced /\ ops[i].pc = "done"
        /\ Cardinality(DOMAIN ops[i].before) = 3
        /\ FailedKeys(i) # {} /\ ReplayedKeys(i) # {}

Follows(i, kind) ==
    ops[i].follows /\ ops[i].alone /\ ops[i].prev.kind = kind

\* C5: a Remove run in which replayed set calls failed (its persist call
\* succeeded and its change event has been delivered), followed by a
\* SetAll whose set calls all succeed: afterwards every entry whose replay
\* had failed is live in the engine and the engine's live rules are the
\* canonical set.
C5_SetAllAfterRemoveRestores ==
    \A i \in Slots :
        /\ SetAll(i) /\ Follows(i, "Remove")
        /\ ops[i].prev.pc = "done" /\ ops[i].prev.failed # {}
        /\ ops[i].pc = "done" /\ AllSucceeded(i)
        => /\ \A f \in ops[i].prev.failed :
                 /\ f \in DOMAIN store.val
                 /\ store.val[f] \in engine
           /\ engine = Values(store.val)
           /\ store = Some(currentSettings)

\* Before the SetAll the engine lacked the entries whose replay had failed.
C5_Witness ==
    \E i \in Slots :
        /\ SetAll(i) /\ Follows(i, "Remove")
        /\ ops[i].prev.pc = "done" /\ ops[i].prev.failed # {}
        /\ ops[i].pc = "done" /\ AllSucceeded(i)
        /\ ~ops[i].synced
        /\ Cardinality(DOMAIN currentSettings) = 2

\* The preceding run was an AddOrReplace whose set call succeeded and whose
\* persist call failed; the SetAll run i is over and all its calls
\* succeeded.
SetAllAfterUnpersistedAdd(i) ==
    /\ SetAll(i) /\ Follows(i, "Add")
    /\ ops[i].prev.pc = "failed" /\ ops[i].prev.failed = {}
    /\ ops[i].pc = "done" /\ AllSucceeded(i)

\* C6 as stated: after an AddOrReplace whose set call succeeded and whose
\* persist call failed, a SetAll whose set calls all succeed leaves the
\* engine's live rules equal to the canonical set.
C6_SetAllReconcilesAfterAdd ==
    \A i \in Slots :
        SetAllAfterUnpersistedAdd(i) => engine = Values(store.val)

\* C6 amended: after such an AddOrReplace(rule), a SetAll whose set calls
\* all succeed makes every canonical entry live in the engine; starting
\* from an engine that agreed with the canonical set, the engine then
\* equals the canonical set if that set holds an entry under rule's key
\* (SetAll overwrites rule), and is the canonical set plus rule otherwise.
C6_SetAllReconcilesKnownKeys ==
    \A i \in Slots :
        SetAllAfterUnpersistedAdd(i) =>
            LET rule == ops[i].prev.entry
                known == keyForEntry(rule) \in DOMAIN currentSettings
            IN /\ Values(currentSettings) \subseteq engine
               /\ rule \in engine \/ known
               /\ ops[i].prev.synced =>
                     /\ store = Some(currentSettings)
                     /\ known => engine = Values(store.val)
                     /\ ~known => /\ engine = Values(store.val) \cup {rule}
                                  /\ engine # Values(store.val)

\* The rule replaced a canonical entry in the engine and SetAll put the
\* canonical entry back.
C6_Witness ==
    \E i \in Slots :
        /\ SetAllAfterUnpersistedAdd(i) /\ ops[i].prev.synced
        /\ keyForEntry(ops[i].prev.entry) \in DOMAIN currentSettings
        /\ ops[i].prev.entry \notin Values(currentSettings)
        /\ engine = Values(store.val)

\* C10: a ClearAll run whose calls succeeded, not interleaved with
\* anything, leaves the canonical store and the engine empty and no error
\* in the status; when it is the first run of the session or follows
\* another such ClearAll, the mirror is empty too once the change events
\* are delivered.  The second of two such runs finds the set already
\* empty, produces no change event and completes all the same.
C10_ClearAllTwice ==
    \A i \in Slots :
        ClearAll(i) /\ ops[i].alone /\ Over(i) /\ AllSucceeded(i)
        => /\ ops[i].pc = "done"
           /\ Cardinality(ops[i].settled) = 2
           /\ store = Absent
           /\ engine = {}
           /\ /\ notifs = <<>>
              /\ ops[i].prev.kind = "None" \/ Follows(i, "ClearAll")
              => currentSettings = EmptySettings
           /\ statusText = ""
           /\ Follows(i, "ClearAll") /\ ops[i].prev.pc = "done"
                 => ops[i].before = EmptySettings /\ notifs = <<>>

\* The second of two ClearAll runs is over; the first one cleared a set
\* that was not empty.
C10_Witness ==
    \E i \in Slots :
        /\ ClearAll(i) /\ Follows(i, "ClearAll")
        /\ ops[i].prev.pc = "done" /\ ops[i].prev.nonEmpty
        /\ ops[i].pc = "done"
        /\ store = Absent /\ currentSettings = EmptySettings

\* The persist step of operation i (storage set or clear) was rejected.
StoreCallFailed(i, fn) == <<fn, "", FALSE>> \in ops[i].settled

\* C11: when the storage clear of a ClearAll run (not interleaved with
\* anything) fails, the canonical store holds what it held when the run
\* started, the mirror is unchanged, and the status shows the error of the
\* failed call.
C11_ClearAllStoreFailure ==
    \A i \in Slots :
        ClearAll(i) /\ ops[i].alone /\ StoreCallFailed(i, "sync.clear")
        => /\ store = ops[i].stored
           /\ currentSettings = ops[i].before
           /\ statusText = ErrorMessage("sync.clear")

\* The part of C11 about the stored value alone: store and mirror are
\* kept, the engine has been cleared, and the run is over as failed.
C11_StoreKept ==
    \A i \in Slots :
        ClearAll(i) /\ ops[i].alone /\ StoreCallFailed(i, "sync.clear")
        => /\ store = ops[i].stored
           /\ currentSettings = ops[i].before
           /\ notifs = <<>>
           /\ engine = {}
           /\ ops[i].pc = "failed"

\* The storage clear of a ClearAll failed on a store that held rules.
C11_Witness ==
    \E i \in Slots :
        /\ ClearAll(i) /\ ops[i].alone /\ StoreCallFailed(i, "sync.clear")
        /\ ops[i].stored.has /\ ops[i].stored.val # EmptySettings
        /\ store = ops[i].stored

\* The completion callback of call c runs in this step (with the status
\* update and the continuation it unblocks).
CallbackRuns(c) == c.state = "replied" /\ c \notin calls'

\* C12: the step in which an adapted call settles updates the status, and
\* after it the status text is that call's error message if the call
\* failed and the empty string if it succeeded, whatever it showed before
\* (also for the concurrently issued calls of SetAll and of the replay).
C12_StatusShowsOutcome ==
    [][\A c \in calls :
          CallbackRuns(c) =>
              statusText' = IF c.ok THEN "" ELSE ErrorMessage(c.fn)]_vars

\* What holds of the status: it changes only in a step in which a call
\* settles, it is empty after a call that succeeded, and after a call that
\* failed it is that call's message or empty, never an older message.
C12_StatusUpdatedPerCall ==
    [][/\ statusText' # statusText => \E c \in calls : CallbackRuns(c)
       /\ \A c \in calls :
             CallbackRuns(c) =>
                 /\ c.ok => statusText' = ""
                 /\ ~c.ok => statusText' \in {"", ErrorMessage(c.fn)}]_vars

\* A set call of a SetAll failed and the status is empty although every
\* call that settled so far has failed.
C12_Witness ==
    \E i \in Slots :
        /\ SetAll(i) /\ ops[i].alone
        /\ ops[i].settled # {} /\ \A t \in ops[i].settled : ~t[3]
        /\ statusText = ""

\* <<fn, key>> of a call: what tells the calls of one run apart.
CallId(c) == <<c.fn, c.key>>

\* The calls of run i whose promise the handler awaits directly: all but
\* the replayed set calls of Remove (joined by Promise.allSettled) and the
\* set calls of SetAll (not awaited).
Awaited(i, t) ==
    /\ ~SetAll(i)
    /\ Remove(i) => t[1] # "cookies.set"

\* C13: every call a run issued is issued once (no retry: no two issued
\* calls are the same), and is either pending or has settled, once; its
\* promise is rejected exactly when the browser reported an error to the
\* completion callback: a run has failed exactly when a call it awaited
\* has, and the initial fetch hands the value passed to the callback to
\* onSyncedSettings when it succeeded and leaves the mirror alone when not.
C13_AdapterSettlesOnce ==
    /\ [](\A i \in Slots :
            /\ \A m, n \in DOMAIN ops[i].issued :
                  CallId(ops[i].issued[m]) = CallId(ops[i].issued[n]) => m = n
            /\ \A c \in calls :
                  c.op = i => /\ \E n \in DOMAIN ops[i].issued :
                                    CallId(ops[i].issued[n]) = CallId(c)
                              /\ \A t \in ops[i].settled :
                                    <<t[1], t[2]>> # CallId(c)
            /\ \A t, u \in ops[i].settled :
                  <<t[1], t[2]>> = <<u[1], u[2]>> => t = u
            /\ Len(ops[i].issued) =
                  Cardinality(ops[i].settled)
                  + Cardinality({c \in calls : c.op = i})
            /\ ops[i].pc = "failed" <=>
                  \E t \in ops[i].settled : ~t[3] /\ Awaited(i, t))
    /\ [][\A c \in calls :
            CallbackRuns(c) /\ c.op = LoadOp =>
                currentSettings' =
                    IF ~c.ok THEN currentSettings
                    ELSE IF c.result.has THEN c.result.val
                    ELSE EmptySettings]_vars

\* An AddOrReplace whose set call resolved and whose persist call was
\* rejected: two calls issued, both settled, the run failed.
C13_Witness ==
    \E i \in Slots :
        /\ Add(i) /\ ops[i].pc = "failed"
        /\ ops[i].settled = {<<"cookies.set", Key(i), TRUE>>,
                              <<"sync.set", "", FALSE>>}
        /\ Len(ops[i].issued) = 2

\* Run i has persisted a rule set: its storage set call succeeded.
Persisted(i) == (Add(i) \/ Remove(i)) /\ ops[i].pc = "done"

\* The rule set S that run i handed to storage set.
PersistedSet(i) == ops[i].issued[Len(ops[i].issued)].data

\* C14: after a run persisted S (nothing interleaved, no write of another
\* device since) the page is opened again; when its initial fetch
\* succeeds the mirror becomes S, the empty set included.
C14_PersistThenLoad ==
    [][\A c \in calls :
          CallbackRuns(c) /\ c.op = LoadOp /\ c.ok =>
              \A i \in Slots :
                  Persisted(i) /\ ops[i].reloaded /\ ops[i].alone
                  => currentSettings' = PersistedSet(i)]_vars

\* S persisted, page opened again, S (not empty) loaded into the mirror.
C14_Witness ==
    \E i \in Slots :
        /\ Persisted(i) /\ ops[i].reloaded /\ ops[i].alone
        /\ calls = {}
        /\ PersistedSet(i) # EmptySettings
        /\ currentSettings = PersistedSet(i)

\* The same for the empty set, persisted by removing the only entry: the
\* store holds an empty record, not an absent value.
C14_WitnessEmpty ==
    \E i \in Slots :
        /\ Remove(i) /\ Persisted(i) /\ ops[i].reloaded /\ ops[i].alone
        /\ calls = {}
        /\ PersistedSet(i) = EmptySettings /\ store = Some(EmptySettings)
        /\ currentSettings = EmptySettings

\* The storage.onChanged listener runs on the oldest pending event.
ChangeDelivered == notifs # <<>> /\ notifs' = Tail(notifs)

\* An optional rule set read as a rule set: the empty set when absent.
ValueOrEmpty(v) == IF v.has THEN v.val ELSE EmptySettings

\* C15: when the initial fetch completes, and whenever a change event of
\* the rule set is delivered, the mirror becomes exactly the delivered
\* value, the empty set if that value is absent; nothing of the previous
\* mirror is kept.
C15_MirrorReplacedWholesale ==
    [][/\ \A c \in calls :
             CallbackRuns(c) /\ c.op = LoadOp /\ c.ok =>
                 currentSettings' = ValueOrEmpty(c.result)
       /\ ChangeDelivered /\ Head(notifs).hasKey =>
             currentSettings' = ValueOrEmpty(Head(notifs).newValue)]_vars

\* The change event of a Remove on a set of two or more entries has been
\* delivered: the mirror holds the remaining entries and no longer the
\* removed one.
C15_Witness ==
    \E i \in Slots :
        /\ Remove(i) /\ ops[i].alone /\ ops[i].pc = "done"
        /\ notifs = <<>>
        /\ Cardinality(DOMAIN ops[i].before) > 1
        /\ Key(i) \notin DOMAIN currentSettings
        /\ currentSettings = Remaining(i)

\* C16: the mirror changes only in a step in which the initial fetch
\* completes or a change event of the rule set is delivered: no handler
\* (and so no persist) writes it, and the delivery of a change event that
\* does not concern the rule set leaves it as it is.
C16_MirrorWrittenOnlyBySync ==
    [][/\ currentSettings' # currentSettings =>
             \/ \E c \in calls : CallbackRuns(c) /\ c.op = LoadOp
             \/ ChangeDelivered /\ Head(notifs).hasKey
       /\ ChangeDelivered /\ ~Head(notifs).hasKey =>
             currentSettings' = currentSettings]_vars

\* An AddOrReplace is over, the store holds the new set, and the mirror is
\* still the old one: the change event is pending.
C16_Witness ==
    \E i \in Slots :
        /\ Add(i) /\ ops[i].alone /\ ops[i].pc = "done"
        /\ store = Some(WithEntry(ops[i].before, Key(i), ops[i].entry))
        /\ store # ops[i].stored
        /\ notifs # <<>>
        /\ currentSettings = ops[i].before

\* A change event of another storage key is pending while the mirror
\* holds rules.
C16_WitnessOtherKey ==
    /\ notifs # <<>> /\ ~Head(notifs).hasKey
    /\ currentSettings # EmptySettings

\* The first call of run i (engine clear of Remove and ClearAll, engine
\* set of AddOrReplace) was rejected.
FirstCallFailed(i) ==
    /\ Remove(i) \/ Add(i) \/ ClearAll(i)
    /\ <<ops[i].issued[1].fn, ops[i].issued[1].key, FALSE>> \in ops[i].settled

\* C17: when the first call of a Remove, AddOrReplace or ClearAll run
\* fails, the run is over: that call is the only one it ever issued (no
\* replayed set call, no storage set or clear), and the canonical store of
\* a run not interleaved with anything is the one it started with.
C17_FirstFailureStops ==
    \A i \in Slots :
        FirstCallFailed(i)
        => /\ ops[i].pc = "failed"
           /\ Len(ops[i].issued) = 1
           /\ ops[i].issued[1].fn \in {"cookies.clear", "cookies.set"}
           /\ \A c \in calls : c.op # i
           /\ Cardinality(ops[i].settled) = 1
           /\ ops[i].alone => store = ops[i].stored /\ notifs = <<>>

\* The engine clear of a Remove on a set of two or more entries failed.
C17_Witness ==
    \E i \in Slots :
        /\ Remove(i) /\ FirstCallFailed(i) /\ ops[i].alone
        /\ Cardinality(DOMAIN ops[i].before) > 1
        /\ store = ops[i].stored /\ store.has

\* Every operation of the session is over and no call is pending.
AllSettled == calls = {} /\ NoneActive

\* The rule of AddOrReplace run i is in the canonical store.
Stored(i) ==
    /\ store.has /\ Key(i) \in DOMAIN store.val
    /\ store.val[Key(i)] = ops[i].entry

\* C18 as stated: once all operations have settled, the rule of every
\* AddOrReplace whose persist call succeeded is in the canonical store
\* (under its key, and as submitted unless another AddOrReplace of that key
\* ran), unless a Remove of its key was requested.
C18_AdditionSurvives ==
    \A i \in Slots :
        /\ Add(i) /\ ops[i].pc = "done" /\ AllSettled
        /\ ~\E j \in Slots : Remove(j) /\ Key(j) = Key(i)
        => /\ store.has /\ Key(i) \in DOMAIN store.val
           /\ (~\E j \in Slots \ {i} : Add(j) /\ Key(j) = Key(i))
                 => Stored(i)

\* C18 amended: once all operations have settled, the rule of every
\* AddOrReplace whose persist call succeeded is in the canonical store
\* unless the store holds the set of another operation's persist call,
\* performed later: a Remove of the rule's own key, or any concurrent
\* Remove or AddOrReplace whose set was built from a mirror that did not
\* hold the rule yet.
C18_AdditionSurvivesUnlessOverwritten ==
    \A i \in Slots :
        Add(i) /\ ops[i].pc = "done" /\ AllSettled
        => \/ Stored(i)
           \/ \E j \in Slots \ {i} :
                 /\ Persisted(j)
                 /\ store = Some(PersistedSet(j))
                 /\ Key(i) \in DOMAIN PersistedSet(j)
                       => PersistedSet(j)[Key(i)] # ops[i].entry

\* A Remove of another key ran concurrently with an AddOrReplace; both
\* persist calls succeeded and the added rule is not in the store.
C18_Witness ==
    \E i, j \in Slots :
        /\ Add(i) /\ ops[i].pc = "done"
        /\ Remove(j) /\ ops[j].pc = "done" /\ Key(j) # Key(i)
        /\ AllSettled /\ notifs = <<>>
        /\ store = Some(PersistedSet(j))
        /\ Key(i) \notin DOMAIN store.val

\* Positions in the queue of the change events of the rule set.
KeyEvents == {n \in DOMAIN notifs : notifs[n].hasKey}

\* The initial fetch completes in this step.
LoadCompletes == \E c \in calls : CallbackRuns(c) /\ c.op = LoadOp

\* With no change event of the rule set pending, the mirror is the rule
\* set of the store.
Fresh == KeyEvents = {} => currentSettings = ValueOrEmpty(store)

\* C19 as stated: in every quiescent state the mirror is the rule set held
\* by the canonical store, the empty set when the store holds none.
C19_QuiescentMirrorIsStore ==
    Quiescent => currentSettings = ValueOrEmpty(store)

\* The second half of C19 as stated: when the initial fetch succeeds and
\* completes with no change event pending, the mirror is left equal to the
\* store (its result does not replace a newer value).
C19_LoadResultIsCurrent ==
    [][\A c \in calls :
          CallbackRuns(c) /\ c.op = LoadOp /\ c.ok /\ notifs = <<>> =>
              currentSettings' = ValueOrEmpty(store)]_vars

\* C19 amended: the store always holds the value of the newest pending
\* change event of the rule set; once no such event is pending the mirror
\* equals the store, and every step keeps that, except the completion of
\* the initial fetch: when it succeeded it sets the mirror to the value it
\* had fetched, whatever has been delivered since, and when it failed it
\* leaves the mirror as it is.
C19_FreshExceptForLoad ==
    /\ [](KeyEvents # {} =>
            LET last == CHOOSE n \in KeyEvents : \A k \in KeyEvents : k <= n
            IN store = notifs[last].newValue)
    /\ [][/\ Fresh /\ ~LoadCompletes => Fresh'
          /\ \A c \in calls :
                CallbackRuns(c) /\ c.op = LoadOp =>
                    currentSettings' = IF c.ok THEN ValueOrEmpty(c.result)
                                       ELSE currentSettings]_vars

\* The change event of an AddOrReplace has been delivered after the
\* initial fetch: quiescent, and the mirror is the stored set with the
\* new rule.
C19_Witness ==
    \E i \in Slots :
        /\ Add(i) /\ ops[i].alone /\ ops[i].pc = "done"
        /\ Quiescent
        /\ store # ops[i].stored
        /\ Stored(i)
        /\ currentSettings = store.val
====
